---- MODULE Spec2Model ----
(***************************************************************************)
(* Model of the bounding-box kernel of the WebLINX / BrowserGym data       *)
(* preparation scripts:                                                    *)
(*   processing/prepare_data_for_agentlab.py                               *)
(*     verify_overlap_with_other_bboxes, sort_uid_by_area,                 *)
(*     remove_overlapping_bboxes, preprocess_extra_props                   *)
(*   processing/get_snapshots.py                                           *)
(*     compute_visibility, compute_iou, infer_set_of_marks,                *)
(*     update_extra_props_with_bboxes, the loop of main over the pages     *)
(*   processing/create_weblinx_zips.py                                     *)
(*     the zipping loop and its done file                                  *)
(*   processing/create_metadata_json.py                                    *)
(*     the loop over the turns of a demonstration                          *)
(*                                                                         *)
(* Numbers are integers; a Python float quotient n / d is kept as the      *)
(* pair (num, den) and compared by cross multiplication, a division by     *)
(* zero is the outcome ZeroDivisionError.                                  *)
(***************************************************************************)
EXTENDS Integers, Sequences, FiniteSets, TLC

VARIABLES
    pc,             \* position of the running script / function
    err,            \* exception that left the running function, or "none"
    \* ---- prepare_data_for_agentlab.py: one step's extra properties
    input,          \* the table as loaded from the json file
    extra_props,    \* the table, mutated in place
    entry_props,    \* history: the table on entry of remove_overlapping_bboxes
    iou_threshold,  \* <<n, d>>: the float n / d
    band,           \* <<min_area, max_area>> once preprocess_extra_props ran
    uids_sorted,    \* local of remove_overlapping_bboxes
    other_bboxes,   \* local of remove_overlapping_bboxes
    other_uids,     \* history: the uid whose box each other_bboxes entry is
    idx,            \* position of the for loop in uids_sorted
    \* ---- get_snapshots.py: compute_iou / verify_overlap on two boxes
    bbox1,
    bbox2,
    iou,            \* result of compute_iou
    overlap,        \* result of verify_overlap_with_other_bboxes
    \* ---- get_snapshots.py: update_extra_props_with_bboxes
    bboxes,         \* the box map of bboxes-<index>.json
    existing_soms,  \* local of the for loop: <<key, box>> pairs in dict order
    screen,         \* <<screen_width, screen_height>>
    visibility,     \* result of compute_visibility
    infer_key,      \* argument key of infer_set_of_marks
    soms_before,    \* history: existing_soms on entry of infer_set_of_marks
    inferred,       \* result of infer_set_of_marks
    \* ---- prepare_data_for_agentlab.py: a second application
    run,            \* 1, or 2 once the table was post-processed again
    first_output,   \* history: the table the first application left
    \* ---- get_snapshots.py: the snapshot loop of main
    snap_files,     \* page -> the files of the page that exist on disk
    snap_bboxes,    \* the pages whose bboxes-<index>.json exists
    snap_page,      \* position of the for loop in file_lst
    snap_iter,      \* history: what the current pass of the loop has done
    snap_run,       \* number of the run of the script
    snap_killed,    \* history: a run of the script was interrupted
    \* ---- create_weblinx_zips.py
    zip_dirs,       \* the items of source_dir that are directories
    zip_files,      \* folder -> state of <folder>.zip on disk
    done_file,      \* content of weblinx_zipping_done.json on disk
    done,           \* the dict done of the running script
    zip_pos,        \* position of the for loop in os.listdir(source_dir)
    rezipped,       \* history: folders zipped again over a complete zip
    zip_run,        \* number of the run of the script
    \* ---- create_metadata_json.py: the turns of one demonstration
    meta_files,     \* which of screenshot-0-0, bboxes-0, page-0-0 exist
    meta_turns,     \* the replay: what each turn has
    meta_pos,       \* position of the for loop in the replay
    last_screenshot,
    last_bbox,
    last_html,
    meta_results    \* results[split][demo_id], as a set of steps

visVars == <<visibility>>
inferVars == <<infer_key, soms_before, inferred>>
againVars == <<run, first_output>>
snapVars ==
    <<snap_files, snap_bboxes, snap_page, snap_iter, snap_run, snap_killed>>
zipVars ==
    <<zip_dirs, zip_files, done_file, done, zip_pos, rezipped, zip_run>>

metaVars ==
    <<meta_files, meta_turns, meta_pos, last_screenshot, last_bbox,
      last_html, meta_results>>

vars == <<pc, err, input, extra_props, entry_props, iou_threshold, band,
          uids_sorted,
          other_bboxes, other_uids, idx, bbox1, bbox2, iou, overlap,
          bboxes, existing_soms, screen, visVars, inferVars, againVars,
          snapVars, zipVars, metaVars>>

\* Python's None (a bbox that is null in the json file; a value not computed)
None == <<>>

Max(a, b) == IF a >= b THEN a ELSE b
Min(a, b) == IF a <= b THEN a ELSE b

Range(s) == {s[i] : i \in 1..Len(s)}

(***************************************************************************)
(* Floats.  interArea / float(den) raises when den = 0.                    *)
(***************************************************************************)
Quotient(n, d) == [raised |-> d = 0, num |-> n, den |-> d]

\* q > thr for a quotient that did not raise and thr = <<n, d>> with d > 0
GreaterThan(q, thr) ==
    IF q.den > 0 THEN q.num * thr[2] > thr[1] * q.den
                 ELSE q.num * thr[2] < thr[1] * q.den

(***************************************************************************)
(* prepare_data_for_agentlab.py                                            *)
(***************************************************************************)

\* the body of the for loop of verify_overlap_with_other_bboxes, lines 34-47
InlineIoU(bbox, other_bbox) ==
    LET x1 == bbox[1]
        y1 == bbox[2]
        w1 == bbox[3]
        h1 == bbox[4]
        x2 == other_bbox[1]
        y2 == other_bbox[2]
        w2 == other_bbox[3]
        h2 == other_bbox[4]
        xA == Max(x1, x2)
        yA == Max(y1, y2)
        xB == Min(x1 + w1, x2 + w2)
        yB == Min(y1 + h1, y2 + h2)
        interArea == Max(0, xB - xA) * Max(0, yB - yA)
        boxAArea == w1 * h1
        boxBArea == w2 * h2
    IN  Quotient(interArea, boxAArea + boxBArea - interArea)

\* verify_overlap_with_other_bboxes with "return False" inside the loop
verify_overlap_with_first_bbox(bbox, bboxes_list, thr) ==
    IF bboxes_list = <<>> THEN [raised |-> FALSE, ret |-> FALSE]
    ELSE LET q == InlineIoU(bbox, Head(bboxes_list))
         IN  IF q.raised THEN [raised |-> TRUE, ret |-> FALSE]
             ELSE [raised |-> FALSE, ret |-> GreaterThan(q, thr)]

\* [raised, ret]: the first box of bboxes_list decides
RECURSIVE verify_overlap_with_other_bboxes(_, _, _)
verify_overlap_with_other_bboxes(bbox, bboxes_list, thr) ==
    IF bboxes_list = <<>> THEN [raised |-> FALSE, ret |-> FALSE]
    ELSE LET q == InlineIoU(bbox, Head(bboxes_list))
         IN  IF q.raised THEN [raised |-> TRUE, ret |-> FALSE]
             ELSE IF GreaterThan(q, thr) THEN [raised |-> FALSE, ret |-> TRUE]
             ELSE verify_overlap_with_other_bboxes(bbox, Tail(bboxes_list), thr)

\* uid_to_area of sort_uid_by_area, lines 67-72
UidToArea(props) ==
    IF props.bbox = None THEN 0 ELSE props.bbox[3] * props.bbox[4]

\* sorted() is stable: uid goes after every uid whose key is not greater
RECURSIVE StableInsert(_, _, _)
StableInsert(sorted, uid, area) ==
    IF sorted = <<>> THEN <<uid>>
    ELSE IF area[Head(sorted)] <= area[uid]
         THEN <<Head(sorted)>> \o StableInsert(Tail(sorted), uid, area)
         ELSE <<uid>> \o sorted

RECURSIVE StableSort(_, _)
StableSort(uids, area) ==
    IF uids = <<>> THEN <<>>
    ELSE StableInsert(StableSort(SubSeq(uids, 1, Len(uids) - 1), area),
                      uids[Len(uids)], area)

\* number of elements of one extra-properties table
NumElems == 3

\* dict order of the table: the uids in the order the json file lists them
\* (here the uid n comes first, the uid 1 last)
Keys == [i \in 1..NumElems |-> NumElems + 1 - i]

\* sorted(..., reverse=True): largest area first
sort_uid_by_area_descending(ep) ==
    StableSort(Keys, [uid \in DOMAIN ep |-> 0 - UidToArea(ep[uid])])

\* sorted by (area, uid): ties broken by the uid, not by the table order
sort_uid_by_area_then_uid(ep) ==
    StableSort([i \in 1..NumElems |-> i],
               [uid \in DOMAIN ep |-> UidToArea(ep[uid])])

\* lines 54-76
sort_uid_by_area(ep) ==
    StableSort(Keys, [uid \in DOMAIN ep |-> UidToArea(ep[uid])])

\* d[name] = value on a dict kept as a record: the key is added when absent
SetItem(d, name, value) ==
    [f \in DOMAIN d \cup {name} |-> IF f = name THEN value ELSE d[f]]

\* the area test of lines 129-132 left out
PreprocessKeyNoArea(props, min_area, max_area) ==
    IF props.bbox = None \/ Len(props.bbox) # 4
    THEN [raised |-> FALSE,
          props |-> SetItem(SetItem(props, "set_of_marks", 0), "clickable", 0)]
    ELSE [raised |-> "set_of_marks" \notin DOMAIN props, props |-> props]

\* the None test of lines 122-125 left out
PreprocessKeyNoNone(props, min_area, max_area) ==
    IF props.bbox = None THEN [raised |-> FALSE, props |-> props]
    ELSE IF "set_of_marks" \notin DOMAIN props
    THEN [raised |-> TRUE, props |-> props]
    ELSE IF props.set_of_marks = 1
         THEN LET width == props.bbox[3]
                  height == props.bbox[4]
                  is_within_area == min_area <= width * height
                                    /\ width * height <= max_area
              IN  [raised |-> FALSE,
                   props |-> SetItem(props, "set_of_marks",
                                     IF is_within_area THEN 1 ELSE 0)]
         ELSE [raised |-> FALSE, props |-> props]

\* lines 121-132, one key: [raised, props]; reading the key set_of_marks of
\* an entry that has none (line 127) raises KeyError
PreprocessKey(props, min_area, max_area) ==
    IF props.bbox = None \/ Len(props.bbox) # 4
    THEN [raised |-> FALSE,
          props |-> SetItem(SetItem(props, "set_of_marks", 0), "clickable", 0)]
    ELSE IF "set_of_marks" \notin DOMAIN props
    THEN [raised |-> TRUE, props |-> props]
    ELSE IF props.set_of_marks = 1
         THEN LET v == props.set_of_marks
                  width == props.bbox[3]
                  height == props.bbox[4]
                  is_within_area == min_area <= width * height
                                    /\ width * height <= max_area
              IN  [raised |-> FALSE,
                   props |-> SetItem(props, "set_of_marks",
                                     IF is_within_area THEN v ELSE 0)]
         ELSE [raised |-> FALSE, props |-> props]

\* lines 121-132: the for loop over the keys, in place; a raise leaves the
\* entries of the keys before it as they were written
RECURSIVE PreprocessLoop(_, _, _, _)
PreprocessLoop(ep, keys, min_area, max_area) ==
    IF keys = <<>> THEN [raised |-> FALSE, extra_props |-> ep]
    ELSE LET r == PreprocessKey(ep[Head(keys)], min_area, max_area)
         IN  IF r.raised THEN [raised |-> TRUE, extra_props |-> ep]
             ELSE PreprocessLoop([ep EXCEPT ![Head(keys)] = r.props],
                                 Tail(keys), min_area, max_area)

\* lines 116-134: [raised, extra_props]
preprocess_extra_props(ep, min_area, max_area) ==
    PreprocessLoop(ep, Keys, min_area, max_area)

\* RemoveIteration that takes the box of a rejected element away as well
RemoveIterationDropsBbox(ep, uid, others, thr) ==
    LET props == ep[uid]
        skip == [raised |-> FALSE, extra_props |-> ep,
                 other_bboxes |-> others, appended |-> FALSE]
    IN  IF props.set_of_marks = 0 THEN skip
        ELSE IF props.bbox = None THEN skip
        ELSE LET is_overlapping ==
                     verify_overlap_with_other_bboxes(props.bbox, others, thr)
             IN  IF is_overlapping.raised
                 THEN [skip EXCEPT !.raised = TRUE]
                 ELSE [raised |-> FALSE,
                       extra_props |->
                           IF is_overlapping.ret
                           THEN [ep EXCEPT ![uid].set_of_marks = 0,
                                           ![uid].bbox = None]
                           ELSE ep,
                       other_bboxes |-> Append(others, props.bbox),
                       appended |-> TRUE]

\* RemoveIteration with the test of line 109 turned round
RemoveIterationInverted(ep, uid, others, thr) ==
    LET props == ep[uid]
        skip == [raised |-> FALSE, extra_props |-> ep,
                 other_bboxes |-> others, appended |-> FALSE]
    IN  IF props.set_of_marks = 0 THEN skip
        ELSE IF props.bbox = None THEN skip
        ELSE LET is_overlapping ==
                     verify_overlap_with_other_bboxes(props.bbox, others, thr)
             IN  IF is_overlapping.raised
                 THEN [skip EXCEPT !.raised = TRUE]
                 ELSE [raised |-> FALSE,
                       extra_props |->
                           IF ~is_overlapping.ret
                           THEN [ep EXCEPT ![uid].set_of_marks = 0]
                           ELSE ep,
                       other_bboxes |-> Append(others, props.bbox),
                       appended |-> TRUE]

\* lines 98-112: one pass of the for loop of remove_overlapping_bboxes
\* [raised, extra_props, other_bboxes, appended]
RemoveIteration(ep, uid, others, thr) ==
    LET props == ep[uid]
        original_som == props.set_of_marks
        skip == [raised |-> FALSE, extra_props |-> ep,
                 other_bboxes |-> others, appended |-> FALSE]
    IN  IF original_som = 0 THEN skip
        ELSE IF props.bbox = None THEN skip
        ELSE LET is_overlapping ==
                     verify_overlap_with_other_bboxes(props.bbox, others, thr)
             IN  IF is_overlapping.raised
                 THEN [skip EXCEPT !.raised = TRUE]
                 ELSE [raised |-> FALSE,
                       extra_props |->
                           IF is_overlapping.ret
                           THEN [ep EXCEPT ![uid].set_of_marks = 0]
                           ELSE ep,
                       other_bboxes |-> Append(others, props.bbox),
                       appended |-> TRUE]

(***************************************************************************)
(* Inputs of the step post-processing.                                     *)
(***************************************************************************)

\* [x, y, width, height] lists of the json files
SmallBox == <<0, 0, 2, 2>>
EmptyBox == <<0, 0, 0, 0>>
BoxB == <<0, 0, 95, 95>>
BoxA == <<0, 0, 100, 100>>
BoxD == <<0, 0, 100, 105>>
BoxC == <<0, 0, 100, 125>>
TieBox == <<50, 0, 100, 100>>
HugeBox == <<0, 0, 1000, 1000>>

ListBoxes == {SmallBox, EmptyBox, BoxB, BoxA, BoxD, BoxC, TieBox, HugeBox}

Entries ==
    {[bbox |-> b, set_of_marks |-> 1, clickable |-> 1] :
        b \in ListBoxes \cup {None}}
    \cup {[bbox |-> b, set_of_marks |-> 0, clickable |-> 1] :
            b \in {None, BoxB}}

\* iou_threshold: 0.75 at the call of line 254, 0.9 the default of line 78
Thresholds == {<<3, 4>>, <<9, 10>>}

\* (min_area, max_area): the call of line 251, the defaults of line 116
Bands == {<<50, 500000>>, <<20, 1000000>>}

IdleIoU ==
    /\ bbox1 = None
    /\ bbox2 = None
    /\ iou = Quotient(0, 1)
    /\ overlap = [raised |-> FALSE, ret |-> FALSE]

IdleMerge ==
    /\ bboxes = <<>>
    /\ existing_soms = <<>>
    /\ screen = <<>>

IdleVis == visibility = [num |-> 0, den |-> 1]

IdleInfer ==
    /\ infer_key = 0
    /\ soms_before = <<>>
    /\ inferred = [raised |-> FALSE, ret |-> FALSE]

IdleAgain ==
    /\ run = 1
    /\ first_output = <<>>

\* no pass of the snapshot loop has begun
NoIter ==
    [page |-> 0, marked |-> FALSE, launched |-> FALSE, raised |-> FALSE,
     wrote |-> {}]

IdleSnap ==
    /\ snap_files = <<>>
    /\ snap_bboxes = {}
    /\ snap_page = 0
    /\ snap_iter = NoIter
    /\ snap_run = 0
    /\ snap_killed = FALSE

\* None where a path is expected; a path is the number of the turn the file
\* belongs to, 0 for screenshot-0-0.png, bboxes-0.json, page-0-0.html
NonePath == 0 - 1

IdleMeta ==
    /\ meta_files = <<>>
    /\ meta_turns = <<>>
    /\ meta_pos = 0
    /\ last_screenshot = NonePath
    /\ last_bbox = NonePath
    /\ last_html = NonePath
    /\ meta_results = {}

\* weblinx_zipping_done.json: whether it parses as json, and its keys
DoneFile(valid, keys) == [valid |-> valid, keys |-> keys]

IdleZip ==
    /\ zip_dirs = {}
    /\ zip_files = <<>>
    /\ done_file = DoneFile(TRUE, {})
    /\ done = {}
    /\ zip_pos = 0
    /\ rezipped = {}
    /\ zip_run = 0

Init ==
    /\ pc = "start"
    /\ err = "none"
    /\ input \in [1..NumElems -> Entries]
    /\ extra_props = input
    /\ entry_props = input
    /\ iou_threshold \in Thresholds
    /\ band = None
    /\ uids_sorted = <<>>
    /\ other_bboxes = <<>>
    /\ other_uids = <<>>
    /\ idx = 0
    /\ IdleIoU
    /\ IdleMerge
    /\ IdleVis
    /\ IdleInfer
    /\ IdleAgain
    /\ IdleSnap
    /\ IdleZip
    /\ IdleMeta

\* lines 251-253: extra_properties = preprocess_extra_props(...)
Preprocess ==
    /\ pc = "start"
    /\ \E b \in Bands :
        /\ run = 2 => b = band
        /\ band' = b
        /\ LET r == preprocess_extra_props(extra_props, b[1], b[2])
           IN  /\ extra_props' = r.extra_props
               /\ pc' = IF r.raised THEN "raised" ELSE "preprocessed"
               /\ err' = IF r.raised THEN "KeyError" ELSE err
    /\ entry_props' = entry_props
    /\ UNCHANGED <<input, iou_threshold, uids_sorted, other_bboxes,
                   other_uids, idx, bbox1, bbox2, iou, overlap, bboxes,
                   existing_soms, screen, visVars, inferVars,
                   againVars, snapVars, zipVars, metaVars>>

\* lines 94-96: entry of remove_overlapping_bboxes(inplace=True), after
\* preprocess_extra_props (line 254) or on a table as loaded
RemoveBegin ==
    /\ pc \in {"start", "preprocessed"}
    /\ entry_props' = extra_props
    /\ uids_sorted' = sort_uid_by_area(extra_props)
    /\ other_bboxes' = <<>>
    /\ other_uids' = <<>>
    /\ idx' = 1
    /\ pc' = "loop"
    /\ UNCHANGED <<err, input, extra_props, iou_threshold, band,
                   bbox1, bbox2, iou, overlap, bboxes, existing_soms, screen,
                   visVars, inferVars, againVars, snapVars, zipVars, metaVars>>

\* lines 98-114: one pass of the loop; the pass after the last uid returns
RemoveStep ==
    /\ pc = "loop"
    /\ LET uid == uids_sorted[idx]
           r == RemoveIteration(extra_props, uid, other_bboxes, iou_threshold)
       IN  IF r.raised
           THEN /\ pc' = "raised"
                /\ err' = "ZeroDivisionError"
                /\ UNCHANGED <<extra_props, other_bboxes, other_uids, idx>>
           ELSE /\ extra_props' = r.extra_props
                /\ other_bboxes' = r.other_bboxes
                /\ other_uids' = IF r.appended THEN Append(other_uids, uid)
                                              ELSE other_uids
                /\ idx' = idx + 1
                /\ pc' = IF idx = Len(uids_sorted) THEN "done" ELSE "loop"
                /\ err' = err
    /\ UNCHANGED <<input, entry_props, iou_threshold, band, uids_sorted,
                   bbox1, bbox2, iou, overlap, bboxes, existing_soms, screen,
                   visVars, inferVars, againVars, snapVars, zipVars, metaVars>>

\* the step is post-processed a second time: its table, as returned, goes
\* through lines 251-256 again (with the same arguments), or through
\* remove_overlapping_bboxes alone
Again ==
    /\ pc = "done"
    /\ run = 1
    /\ run' = 2
    /\ first_output' = extra_props
    /\ pc' = "start"
    /\ UNCHANGED <<err, input, extra_props, entry_props, iou_threshold, band,
                   uids_sorted, other_bboxes, other_uids, idx, bbox1, bbox2,
                   iou, overlap, bboxes, existing_soms, screen, visVars,
                   inferVars, snapVars, zipVars, metaVars>>

Next ==
    \/ Preprocess
    \/ RemoveBegin
    \/ RemoveStep
    \/ Again

Spec == Init /\ [][Next]_vars

(***************************************************************************)
(* preprocess_extra_props on tables whose entries may lack set_of_marks    *)
(* or clickable                                                            *)
(***************************************************************************)

\* a bbox that is not a list of 4
ShortBox == <<0, 0>>

\* entries with a bbox and any of the two other properties
PartialEntries ==
    UNION {
        {[bbox |-> b]}
        \cup {[bbox |-> b, set_of_marks |-> m] : m \in {0, 1}}
        \cup {[bbox |-> b, clickable |-> 1]}
        \cup {[bbox |-> b, set_of_marks |-> m, clickable |-> 1] :
                 m \in {0, 1}}
        : b \in {None, ShortBox, SmallBox, BoxB}}

InitPre ==
    /\ pc = "pre"
    /\ err = "none"
    /\ input \in [1..NumElems -> PartialEntries]
    /\ extra_props = input
    /\ entry_props = input
    /\ band \in Bands
    /\ iou_threshold = <<9, 10>>
    /\ uids_sorted = <<>>
    /\ other_bboxes = <<>>
    /\ other_uids = <<>>
    /\ idx = 0
    /\ IdleIoU
    /\ IdleMerge
    /\ IdleVis
    /\ IdleInfer
    /\ IdleAgain
    /\ IdleSnap
    /\ IdleZip
    /\ IdleMeta

\* a call preprocess_extra_props(extra_props, min_area, max_area)
PreprocessCall ==
    /\ pc = "pre"
    /\ LET r == preprocess_extra_props(extra_props, band[1], band[2])
       IN  /\ extra_props' = r.extra_props
           /\ pc' = IF r.raised THEN "pre_raised" ELSE "pre_done"
           /\ err' = IF r.raised THEN "KeyError" ELSE err
    /\ UNCHANGED <<input, entry_props, iou_threshold, band, uids_sorted,
                   other_bboxes, other_uids, idx, bbox1, bbox2, iou, overlap,
                   bboxes, existing_soms, screen, visVars, inferVars,
                   againVars, snapVars, zipVars, metaVars>>

NextPre == PreprocessCall

SpecPre == InitPre /\ [][NextPre]_vars

(***************************************************************************)
(* get_snapshots.py: rectangle geometry                                    *)
(***************************************************************************)

\* interArea / float(boxAArea + boxBArea): the intersection not subtracted
compute_iou_union_not_reduced(b1, b2) ==
    LET xA == Max(b1.x, b2.x)
        yA == Max(b1.y, b2.y)
        xB == Min(b1.x + b1.width, b2.x + b2.width)
        yB == Min(b1.y + b1.height, b2.y + b2.height)
        interArea == Max(0, xB - xA) * Max(0, yB - yA)
    IN  Quotient(interArea, b1.width * b1.height + b2.width * b2.height)

\* lines 149-179
compute_iou(b1, b2) ==
    LET x1 == b1.x
        y1 == b1.y
        w1 == b1.width
        h1 == b1.height
        x2 == b2.x
        y2 == b2.y
        w2 == b2.width
        h2 == b2.height
        xA == Max(x1, x2)
        yA == Max(y1, y2)
        xB == Min(x1 + w1, x2 + w2)
        yB == Min(y1 + h1, y2 + h2)
        interArea == Max(0, xB - xA) * Max(0, yB - yA)
        boxAArea == w1 * h1
        boxBArea == w2 * h2
    IN  Quotient(interArea, boxAArea + boxBArea - interArea)

\* the [x, y, width, height] list of a box, as line 219 builds it
AsList(b) == <<b.x, b.y, b.width, b.height>>

\* positions -MaxPos..MaxPos, sizes -MaxDim..MaxDim
MaxPos == 1
MaxDim == 2

SignedBoxes ==
    [x : -MaxPos..MaxPos, y : -MaxPos..MaxPos,
     width : -MaxDim..MaxDim, height : -MaxDim..MaxDim]

IdleStep ==
    /\ input = <<>>
    /\ extra_props = <<>>
    /\ entry_props = <<>>
    /\ band = None
    /\ uids_sorted = <<>>
    /\ other_bboxes = <<>>
    /\ other_uids = <<>>
    /\ idx = 0

InitIoU ==
    /\ pc = "start"
    /\ err = "none"
    /\ bbox1 \in SignedBoxes
    /\ bbox2 \in SignedBoxes
    /\ iou = Quotient(0, 1)
    /\ overlap = [raised |-> FALSE, ret |-> FALSE]
    /\ iou_threshold = <<9, 10>>
    /\ IdleStep
    /\ IdleMerge
    /\ IdleVis
    /\ IdleInfer
    /\ IdleAgain
    /\ IdleSnap
    /\ IdleZip
    /\ IdleMeta

\* compute_iou(bbox1, bbox2), as infer_set_of_marks calls it (line 197)
ComputeIoU ==
    /\ pc = "start"
    /\ iou' = compute_iou(bbox1, bbox2)
    /\ pc' = IF iou'.raised THEN "raised" ELSE "computed"
    /\ err' = IF iou'.raised THEN "ZeroDivisionError" ELSE err
    /\ UNCHANGED <<input, extra_props, entry_props, iou_threshold, band,
                   uids_sorted, other_bboxes, other_uids, idx, bbox1, bbox2,
                   overlap, bboxes, existing_soms, screen, visVars, inferVars,
                   againVars, snapVars, zipVars, metaVars>>

\* verify_overlap_with_other_bboxes(bbox1, [bbox2], iou_threshold), as
\* remove_overlapping_bboxes calls it (line 108); iou is its local of line 47
VerifyOverlap ==
    /\ pc = "start"
    /\ iou' = InlineIoU(AsList(bbox1), AsList(bbox2))
    /\ overlap' = verify_overlap_with_other_bboxes(
                      AsList(bbox1), <<AsList(bbox2)>>, iou_threshold)
    /\ pc' = IF overlap'.raised THEN "raised" ELSE "verified"
    /\ err' = IF overlap'.raised THEN "ZeroDivisionError" ELSE err
    /\ UNCHANGED <<input, extra_props, entry_props, iou_threshold, band,
                   uids_sorted, other_bboxes, other_uids, idx, bbox1, bbox2,
                   bboxes, existing_soms, screen, visVars, inferVars,
                   againVars, snapVars, zipVars, metaVars>>

NextIoU ==
    \/ ComputeIoU
    \/ VerifyOverlap

SpecIoU == InitIoU /\ [][NextIoU]_vars

(***************************************************************************)
(* get_snapshots.py: merge of the box map into the extra properties        *)
(***************************************************************************)

\* a float result n / d (d > 0); the ints 0 and 1 are 0 / 1 and 1 / 1
Frac(n, d) == [num |-> n, den |-> d]

\* compute_visibility with the box taken unclipped at the left and top edge
compute_visibility_unclipped(bbox, screen_width, screen_height) ==
    LET x == bbox.x
        y == bbox.y
        width == bbox.width
        height == bbox.height
        x2 == Min(x + width, screen_width)
        y2 == Min(y + height, screen_height)
        total_area == width * height
    IN  IF x + width < 0 \/ x > screen_width
           \/ y + height < 0 \/ y > screen_height
        THEN Frac(0, 1)
        ELSE IF x >= 0 /\ y >= 0 /\ x + width <= screen_width
                /\ y + height <= screen_height
        THEN Frac(1, 1)
        ELSE IF total_area <= 0 THEN Frac(0, 1)
        ELSE Frac((x2 - x) * (y2 - y), total_area)

\* compute_visibility with the test for a box outside the screen left out
compute_visibility_no_outside_test(bbox, screen_width, screen_height) ==
    LET x == bbox.x
        y == bbox.y
        width == bbox.width
        height == bbox.height
        x1 == Max(x, 0)
        y1 == Max(y, 0)
        x2 == Min(x + width, screen_width)
        y2 == Min(y + height, screen_height)
        total_area == width * height
    IN  IF x >= 0 /\ y >= 0 /\ x + width <= screen_width
           /\ y + height <= screen_height
        THEN Frac(1, 1)
        ELSE IF total_area <= 0 THEN Frac(0, 1)
        ELSE Frac((x2 - x1) * (y2 - y1), total_area)

\* lines 118-146
compute_visibility(bbox, screen_width, screen_height) ==
    LET x == bbox.x
        y == bbox.y
        width == bbox.width
        height == bbox.height
        x1 == Max(x, 0)
        y1 == Max(y, 0)
        x2 == Min(x + width, screen_width)
        y2 == Min(y + height, screen_height)
        area == (x2 - x1) * (y2 - y1)
        total_area == width * height
    IN  IF x + width < 0 \/ x > screen_width
           \/ y + height < 0 \/ y > screen_height
        THEN Frac(0, 1)
        ELSE IF x >= 0 /\ y >= 0 /\ x + width <= screen_width
                /\ y + height <= screen_height
        THEN Frac(1, 1)
        ELSE IF total_area <= 0 THEN Frac(0, 1)
        ELSE Frac(area, total_area)

\* defaults of infer_set_of_marks
IouThresholdDefault == <<9, 10>>
AreaPxThreshold == 25

\* lines 195-202: "raised", "false" (a return False) or "end" (loop ran out)
RECURSIVE InferLoop(_, _, _, _)
InferLoop(bbox, items, thr, area_px_threshold) ==
    IF items = <<>> THEN "end"
    ELSE LET val == Head(items)[2]
             q == compute_iou(bbox, val)
         IN  IF q.raised THEN "raised"
             ELSE IF GreaterThan(q, thr) THEN "false"
             ELSE IF bbox.width * bbox.height < area_px_threshold THEN "false"
             ELSE InferLoop(bbox, Tail(items), thr, area_px_threshold)

\* existing_soms[key] = bbox on a dict kept as <<key, value>> pairs
DictSet(items, key, value) ==
    IF \E i \in 1..Len(items) : items[i][1] = key
    THEN [i \in 1..Len(items) |->
             IF items[i][1] = key THEN <<key, value>> ELSE items[i]]
    ELSE Append(items, <<key, value>>)

\* lines 182-206: [raised, ret, existing_soms]
infer_set_of_marks(key, bxs, soms, thr, area_px_threshold) ==
    LET bbox == bxs[key]
        loop == InferLoop(bbox, soms, thr, area_px_threshold)
    IN  IF loop = "raised"
        THEN [raised |-> TRUE, ret |-> FALSE, existing_soms |-> soms]
        ELSE IF loop = "false"
        THEN [raised |-> FALSE, ret |-> FALSE, existing_soms |-> soms]
        ELSE [raised |-> FALSE, ret |-> TRUE,
              existing_soms |-> DictSet(soms, key, bbox)]

\* the else branch with set_of_marks left as it was
MergeAbsentKeepsMark(props) ==
    [props EXCEPT !.visibility = Frac(0, 1)]

\* the else branch also dropping the stale bbox
MergeAbsentDropsBbox(props) ==
    [props EXCEPT !.visibility = Frac(0, 1), !.set_of_marks = FALSE,
                  !.bbox = None]

\* lines 226-228: the key has no box
MergeAbsent(props) ==
    [props EXCEPT !.visibility = Frac(0, 1), !.set_of_marks = FALSE]

\* lines 216-228: one pass of the for loop of update_extra_props_with_bboxes
\* [raised, extra_props, existing_soms]
MergeIteration(ep, key, bxs, screen_width, screen_height) ==
    LET soms == <<>>
    IN  IF key \in DOMAIN bxs
        THEN LET b == bxs[key]
                 vis == compute_visibility(b, screen_width, screen_height)
                 som == infer_set_of_marks(key, bxs, soms, IouThresholdDefault,
                                           AreaPxThreshold)
                 written ==
                     [ep EXCEPT ![key].bbox = <<b.x, b.y, b.width, b.height>>,
                                ![key].visibility = vis]
             IN  [raised |-> som.raised,
                  extra_props |->
                      IF som.raised THEN written
                      ELSE [written EXCEPT ![key].set_of_marks = som.ret],
                  existing_soms |-> som.existing_soms]
        ELSE [raised |-> FALSE,
              extra_props |-> [ep EXCEPT ![key] = MergeAbsent(ep[key])],
              existing_soms |-> soms]

\* boxes of the box map
PageBox == [x |-> 0, y |-> 0, width |-> 100, height |-> 100]
NearPageBox == [x |-> 0, y |-> 0, width |-> 100, height |-> 99]
TinyBox == [x |-> 10, y |-> 10, width |-> 4, height |-> 4]
EdgeBox == [x |-> -5, y |-> 0, width |-> 10, height |-> 10]
FlatBox == [x |-> 10, y |-> 10, width |-> 30, height |-> 0]

DictBoxes == {PageBox, NearPageBox, TinyBox, EdgeBox, FlatBox}

\* the uids of the box map: those of the table and one more
BoxUids == 1..(NumElems + 1)

\* what extract_dom_extra_properties left for an element
PriorEntries ==
    {[bbox |-> None, visibility |-> Frac(0, 1), set_of_marks |-> FALSE,
      clickable |-> 0],
     [bbox |-> <<5, 5, 10, 10>>, visibility |-> Frac(1, 1),
      set_of_marks |-> TRUE, clickable |-> 1]}

\* screenshot size, or the fallback of get_snapshots.main
Screens == {<<100, 100>>, <<1366, 768>>}

InitMerge ==
    /\ pc = "merge"
    /\ err = "none"
    /\ input \in [1..NumElems -> PriorEntries]
    /\ extra_props = input
    /\ bboxes \in UNION {[D -> DictBoxes] : D \in SUBSET BoxUids}
    /\ screen \in Screens
    /\ existing_soms = <<>>
    /\ idx = 1
    /\ entry_props = <<>>
    /\ iou_threshold = IouThresholdDefault
    /\ band = None
    /\ uids_sorted = <<>>
    /\ other_bboxes = <<>>
    /\ other_uids = <<>>
    /\ IdleIoU
    /\ IdleVis
    /\ IdleInfer
    /\ IdleAgain
    /\ IdleSnap
    /\ IdleZip
    /\ IdleMeta

\* lines 215-228: one key of extra_props.items(); the last one returns
MergeStep ==
    /\ pc = "merge"
    /\ LET key == Keys[idx]
           r == MergeIteration(extra_props, key, bboxes, screen[1], screen[2])
       IN  IF r.raised
           THEN /\ pc' = "raised"
                /\ err' = "ZeroDivisionError"
                /\ extra_props' = r.extra_props
                /\ UNCHANGED <<existing_soms, idx>>
           ELSE /\ extra_props' = r.extra_props
                /\ existing_soms' = r.existing_soms
                /\ idx' = idx + 1
                /\ pc' = IF idx = NumElems THEN "merged" ELSE "merge"
                /\ err' = err
    /\ UNCHANGED <<input, entry_props, iou_threshold, band, uids_sorted,
                   other_bboxes, other_uids, bbox1, bbox2, iou, overlap,
                   bboxes, screen, visVars, inferVars, againVars,
                   snapVars, zipVars, metaVars>>

NextMerge == MergeStep

SpecMerge == InitMerge /\ [][NextMerge]_vars

(***************************************************************************)
(* get_snapshots.py: infer_set_of_marks with any existing_soms             *)
(***************************************************************************)

\* the dicts existing_soms of at most two boxes, in insertion order
SomsDicts ==
    {<<>>}
    \cup {<<<<k, b>>>> : k \in BoxUids, b \in DictBoxes}
    \cup {d \in {<<<<k1, b1>>, <<k2, b2>>>> :
                    k1 \in BoxUids, k2 \in BoxUids,
                    b1 \in DictBoxes, b2 \in DictBoxes} :
             d[1][1] # d[2][1]}

InitInfer ==
    /\ pc = "infer"
    /\ err = "none"
    /\ infer_key \in BoxUids
    /\ bboxes \in [{infer_key} -> DictBoxes]
    /\ existing_soms \in SomsDicts
    /\ soms_before = existing_soms
    /\ inferred = [raised |-> FALSE, ret |-> FALSE]
    /\ iou_threshold = IouThresholdDefault
    /\ screen = <<>>
    /\ IdleStep
    /\ IdleIoU
    /\ IdleVis
    /\ IdleAgain
    /\ IdleSnap
    /\ IdleZip
    /\ IdleMeta

\* a call infer_set_of_marks(key, bboxes, existing_soms)
InferCall ==
    /\ pc = "infer"
    /\ LET r == infer_set_of_marks(infer_key, bboxes, existing_soms,
                                   iou_threshold, AreaPxThreshold)
       IN  /\ inferred' = [raised |-> r.raised, ret |-> r.ret]
           /\ existing_soms' = r.existing_soms
           /\ pc' = IF r.raised THEN "infer_raised" ELSE "inferred"
           /\ err' = IF r.raised THEN "ZeroDivisionError" ELSE err
    /\ UNCHANGED <<input, extra_props, entry_props, iou_threshold, band,
                   uids_sorted, other_bboxes, other_uids, idx, bbox1, bbox2,
                   iou, overlap, bboxes, screen, visVars, infer_key,
                   soms_before, againVars, snapVars, zipVars, metaVars>>

NextInfer == InferCall

SpecInfer == InitInfer /\ [][NextInfer]_vars

(***************************************************************************)
(* get_snapshots.py: compute_visibility on signed boxes, alone and as      *)
(* called by update_extra_props_with_bboxes                                *)
(***************************************************************************)

MaxScreen == 2

\* the screens of the calls: small ones around the signed boxes, and those
\* of main (a screenshot's size, or the fallback of lines 365-368)
VisScreens ==
    {<<w, h>> : w \in 0..MaxScreen, h \in 0..MaxScreen} \cup Screens

InitVis ==
    /\ pc = "vis"
    /\ err = "none"
    /\ input \in SignedBoxes \cup DictBoxes
    /\ screen \in VisScreens
    /\ visibility = Frac(0, 1)
    /\ iou_threshold = IouThresholdDefault
    /\ bboxes = <<>>
    /\ existing_soms = <<>>
    /\ extra_props = <<>>
    /\ entry_props = <<>>
    /\ band = None
    /\ uids_sorted = <<>>
    /\ other_bboxes = <<>>
    /\ other_uids = <<>>
    /\ idx = 0
    /\ IdleIoU
    /\ IdleInfer
    /\ IdleAgain
    /\ IdleSnap
    /\ IdleZip
    /\ IdleMeta

\* a call compute_visibility(bbox, screen_width, screen_height)
ComputeVisibility ==
    /\ pc = "vis"
    /\ visibility' = compute_visibility(input, screen[1], screen[2])
    /\ pc' = "visible"
    /\ UNCHANGED <<err, input, extra_props, entry_props, iou_threshold, band,
                   uids_sorted, other_bboxes, other_uids, idx, bbox1, bbox2,
                   iou, overlap, bboxes, existing_soms, screen, inferVars,
                   againVars, snapVars, zipVars, metaVars>>

NextVis == ComputeVisibility \/ MergeStep

SpecVis == (InitVis \/ InitMerge) /\ [][NextVis]_vars

(***************************************************************************)
(* get_snapshots.py: the loop of main over the pages                       *)
(***************************************************************************)

NumPages == 2
MaxRuns == 2

\* file_lst: the pages, in the order of the loop
Pages == 1..NumPages

\* axtree_path, dom_snap_path, extra_props_path
Outputs == {"axtree", "dom_snap", "extra_props"}

\* what a pass of the loop has done so far
IterStart(page, files) ==
    [page |-> page, marked |-> "failed" \in files[page], launched |-> FALSE,
     raised |-> FALSE, wrote |-> {}]

\* the idle values of what the snapshot loop does not touch
IdleRest ==
    /\ err = "none"
    /\ iou_threshold = <<9, 10>>
    /\ IdleStep
    /\ IdleIoU
    /\ IdleMerge
    /\ IdleVis
    /\ IdleInfer
    /\ IdleAgain

\* a first run on a dataset without snapshot files; bboxes-<index>.json
\* exists for some of the pages
InitSnap ==
    /\ pc = "snap_top"
    /\ snap_files = [page \in Pages |-> {}]
    /\ snap_bboxes \in SUBSET Pages
    /\ snap_page = 1
    /\ snap_iter = NoIter
    /\ snap_run = 1
    /\ snap_killed = FALSE
    /\ IdleRest
    /\ IdleZip
    /\ IdleMeta

otherVars ==
    <<err, input, extra_props, entry_props, iou_threshold, band,
      uids_sorted, other_bboxes, other_uids, idx, bbox1, bbox2, iou,
      overlap, bboxes, existing_soms, screen, visVars, inferVars, againVars>>

\* the except branch with its continue left out: the writes follow
ExceptBranchFallsThrough(files, page) ==
    [files |-> [files EXCEPT ![page] = @ \cup {"failed"}],
     wrote |-> {"failed"},
     continue |-> FALSE]

\* lines 423-434: json.dump to failed_path, browser.close(), continue
ExceptBranch(files, page) ==
    [files |-> [files EXCEPT ![page] = @ \cup {"failed"}],
     wrote |-> {"failed"},
     continue |-> TRUE]

\* lines 372-376: the marker of the page exists
SnapSkipFailed ==
    /\ pc = "snap_top"
    /\ snap_page <= NumPages
    /\ "failed" \in snap_files[snap_page]
    /\ snap_iter' = IterStart(snap_page, snap_files)
    /\ snap_page' = snap_page + 1
    /\ UNCHANGED <<pc, snap_files, snap_bboxes, snap_run, snap_killed,
                   otherVars, zipVars, metaVars>>

\* lines 378-380: no bounding box file
SnapSkipNoBboxes ==
    /\ pc = "snap_top"
    /\ snap_page <= NumPages
    /\ "failed" \notin snap_files[snap_page]
    /\ snap_page \notin snap_bboxes
    /\ snap_iter' = IterStart(snap_page, snap_files)
    /\ snap_page' = snap_page + 1
    /\ UNCHANGED <<pc, snap_files, snap_bboxes, snap_run, snap_killed,
                   otherVars, zipVars, metaVars>>

\* lines 382-392: the three outputs exist
SnapSkipExisting ==
    /\ pc = "snap_top"
    /\ snap_page <= NumPages
    /\ "failed" \notin snap_files[snap_page]
    /\ snap_page \in snap_bboxes
    /\ Outputs \subseteq snap_files[snap_page]
    /\ snap_iter' = IterStart(snap_page, snap_files)
    /\ snap_page' = snap_page + 1
    /\ UNCHANGED <<pc, snap_files, snap_bboxes, snap_run, snap_killed,
                   otherVars, zipVars, metaVars>>

\* lines 394-414: the directories, the boxes, the browser
SnapLaunch ==
    /\ pc = "snap_top"
    /\ snap_page <= NumPages
    /\ "failed" \notin snap_files[snap_page]
    /\ snap_page \in snap_bboxes
    /\ ~(Outputs \subseteq snap_files[snap_page])
    /\ snap_iter' = [IterStart(snap_page, snap_files) EXCEPT
                        !.launched = TRUE]
    /\ pc' = "snap_try"
    /\ UNCHANGED <<snap_files, snap_bboxes, snap_page, snap_run, snap_killed,
                   otherVars, zipVars, metaVars>>

\* lines 416-434: get_snapshot_from_path raises, TimeoutError of the alarm
\* of run_with_timeout included
SnapExtractRaises ==
    /\ pc = "snap_try"
    /\ LET r == ExceptBranch(snap_files, snap_page)
       IN  /\ snap_files' = r.files
           /\ snap_iter' = [snap_iter EXCEPT !.raised = TRUE,
                                              !.wrote = @ \cup r.wrote]
           /\ pc' = IF r.continue THEN "snap_top" ELSE "snap_axtree"
           /\ snap_page' = IF r.continue THEN snap_page + 1 ELSE snap_page
    /\ UNCHANGED <<snap_bboxes, snap_run, snap_killed, otherVars,
                   zipVars, metaVars>>

\* lines 416-422, 436-444: the snapshots are returned and merged
SnapExtractReturns ==
    /\ pc = "snap_try"
    /\ pc' = "snap_axtree"
    /\ UNCHANGED <<snapVars, otherVars, zipVars, metaVars>>

\* lines 447-448
SnapWriteAxtree ==
    /\ pc = "snap_axtree"
    /\ snap_files' = [snap_files EXCEPT ![snap_page] = @ \cup {"axtree"}]
    /\ snap_iter' = [snap_iter EXCEPT !.wrote = @ \cup {"axtree"}]
    /\ pc' = "snap_dom"
    /\ UNCHANGED <<snap_bboxes, snap_page, snap_run, snap_killed, otherVars,
                   zipVars, metaVars>>

\* lines 451-452
SnapWriteDomSnap ==
    /\ pc = "snap_dom"
    /\ snap_files' = [snap_files EXCEPT ![snap_page] = @ \cup {"dom_snap"}]
    /\ snap_iter' = [snap_iter EXCEPT !.wrote = @ \cup {"dom_snap"}]
    /\ pc' = "snap_extra"
    /\ UNCHANGED <<snap_bboxes, snap_page, snap_run, snap_killed, otherVars,
                   zipVars, metaVars>>

\* lines 455-460: the last write, browser.close(), next page
SnapWriteExtraProps ==
    /\ pc = "snap_extra"
    /\ snap_files' =
           [snap_files EXCEPT ![snap_page] = @ \cup {"extra_props"}]
    /\ snap_iter' = [snap_iter EXCEPT !.wrote = @ \cup {"extra_props"}]
    /\ pc' = "snap_top"
    /\ snap_page' = snap_page + 1
    /\ UNCHANGED <<snap_bboxes, snap_run, snap_killed, otherVars,
                   zipVars, metaVars>>

\* line 342: file_lst is exhausted, main returns
SnapReturn ==
    /\ pc = "snap_top"
    /\ snap_page = NumPages + 1
    /\ pc' = "snap_end"
    /\ UNCHANGED <<snapVars, otherVars, zipVars, metaVars>>

\* the script is interrupted (KeyboardInterrupt, kill) anywhere in the loop
SnapInterrupt ==
    /\ pc \in {"snap_top", "snap_try", "snap_axtree", "snap_dom",
                "snap_extra"}
    /\ pc' = "snap_end"
    /\ snap_killed' = TRUE
    /\ UNCHANGED <<snap_files, snap_bboxes, snap_page, snap_iter, snap_run,
                   otherVars, zipVars, metaVars>>

\* the script is run again on the same dataset
SnapRunAgain ==
    /\ pc = "snap_end"
    /\ snap_run < MaxRuns
    /\ snap_run' = snap_run + 1
    /\ snap_page' = 1
    /\ snap_iter' = NoIter
    /\ pc' = "snap_top"
    /\ UNCHANGED <<snap_files, snap_bboxes, snap_killed, otherVars,
                   zipVars, metaVars>>

NextSnap ==
    \/ SnapSkipFailed
    \/ SnapSkipNoBboxes
    \/ SnapSkipExisting
    \/ SnapLaunch
    \/ SnapExtractRaises
    \/ SnapExtractReturns
    \/ SnapWriteAxtree
    \/ SnapWriteDomSnap
    \/ SnapWriteExtraProps
    \/ SnapReturn
    \/ SnapInterrupt
    \/ SnapRunAgain

SpecSnap == InitSnap /\ [][NextSnap]_vars

(***************************************************************************)
(* create_weblinx_zips.py                                                  *)
(***************************************************************************)

NumFolders == 2

\* os.listdir(source_dir), in the order of the loop
Folders == 1..NumFolders

\* a first run: no archive, no done file (read as an empty dict)
InitZip ==
    /\ pc = "zip_top"
    /\ zip_dirs \in SUBSET Folders
    /\ zip_files = [f \in Folders |-> "none"]
    /\ done_file = DoneFile(TRUE, {})
    /\ done = {}
    /\ zip_pos = 1
    /\ rezipped = {}
    /\ zip_run = 1
    /\ IdleRest
    /\ IdleSnap
    /\ IdleMeta

\* line 36: the item is not a directory
ZipSkipNotDir ==
    /\ pc = "zip_top"
    /\ zip_pos <= NumFolders
    /\ zip_pos \notin zip_dirs
    /\ zip_pos' = zip_pos + 1
    /\ UNCHANGED <<pc, zip_dirs, zip_files, done_file, done, rezipped,
                   zip_run, otherVars, snapVars, metaVars>>

\* lines 40-41: the folder is a key of done
ZipSkipDone ==
    /\ pc = "zip_top"
    /\ zip_pos <= NumFolders
    /\ zip_pos \in zip_dirs
    /\ zip_pos \in done
    /\ zip_pos' = zip_pos + 1
    /\ UNCHANGED <<pc, zip_dirs, zip_files, done_file, done, rezipped,
                   zip_run, otherVars, snapVars, metaVars>>

\* line 44: ZipFile(zip_filename, 'w') creates or truncates the archive
ZipOpen ==
    /\ pc = "zip_top"
    /\ zip_pos <= NumFolders
    /\ zip_pos \in zip_dirs
    /\ zip_pos \notin done
    /\ rezipped' = IF zip_files[zip_pos] = "complete"
                   THEN rezipped \cup {zip_pos} ELSE rezipped
    /\ zip_files' = [zip_files EXCEPT ![zip_pos] = "partial"]
    /\ pc' = "zip_writing"
    /\ UNCHANGED <<zip_dirs, done_file, done, zip_pos, zip_run, otherVars,
                   snapVars, metaVars>>

\* lines 46-50: every file is added and the with block closes the archive
ZipClose ==
    /\ pc = "zip_writing"
    /\ zip_files' = [zip_files EXCEPT ![zip_pos] = "complete"]
    /\ pc' = "zip_closed"
    /\ UNCHANGED <<zip_dirs, done_file, done, zip_pos, rezipped, zip_run,
                   otherVars, snapVars, metaVars>>

\* lines 53-54: done[folder_name] = zip_filename; open(done_file, 'w')
\* truncates the file
ZipRecord ==
    /\ pc = "zip_closed"
    /\ done' = done \cup {zip_pos}
    /\ done_file' = DoneFile(FALSE, {})
    /\ pc' = "zip_dumping"
    /\ UNCHANGED <<zip_dirs, zip_files, zip_pos, rezipped, zip_run,
                   otherVars, snapVars, metaVars>>

\* line 55: json.dump(done, f), the file is closed, next item
ZipDump ==
    /\ pc = "zip_dumping"
    /\ done_file' = DoneFile(TRUE, done)
    /\ zip_pos' = zip_pos + 1
    /\ pc' = "zip_top"
    /\ UNCHANGED <<zip_dirs, zip_files, done, rezipped, zip_run, otherVars,
                   snapVars, metaVars>>

\* lines 59-60: the loop is over
ZipReturn ==
    /\ pc = "zip_top"
    /\ zip_pos = NumFolders + 1
    /\ pc' = "zip_end"
    /\ UNCHANGED <<zipVars, otherVars, snapVars, metaVars>>

\* the script is interrupted anywhere in the loop
ZipInterrupt ==
    /\ pc \in {"zip_top", "zip_writing", "zip_closed", "zip_dumping"}
    /\ pc' = "zip_end"
    /\ UNCHANGED <<zipVars, otherVars, snapVars, metaVars>>

\* lines 19-28 of a later run: done is loaded from the done file; a file
\* that does not parse makes json.load raise
ZipRunAgain ==
    /\ pc = "zip_end"
    /\ zip_run < MaxRuns
    /\ zip_run' = zip_run + 1
    /\ IF done_file.valid
       THEN /\ done' = done_file.keys
            /\ zip_pos' = 1
            /\ pc' = "zip_top"
            /\ err' = err
       ELSE /\ pc' = "zip_raised"
            /\ err' = "JSONDecodeError"
            /\ UNCHANGED <<done, zip_pos>>
    /\ UNCHANGED <<zip_dirs, zip_files, done_file, rezipped, input,
                   extra_props, entry_props, iou_threshold, band, uids_sorted,
                   other_bboxes, other_uids, idx, bbox1, bbox2, iou, overlap,
                   bboxes, existing_soms, screen, visVars, inferVars,
                   againVars, snapVars, metaVars>>

NextZip ==
    \/ ZipSkipNotDir
    \/ ZipSkipDone
    \/ ZipOpen
    \/ ZipClose
    \/ ZipRecord
    \/ ZipDump
    \/ ZipReturn
    \/ ZipInterrupt
    \/ ZipRunAgain

SpecZip == InitZip /\ [][NextZip]_vars

(***************************************************************************)
(* create_metadata_json.py: the loop over the turns of one demonstration   *)
(***************************************************************************)

NumTurns == 3

\* what the loop reads of a turn: valid is the test of line 117 passed,
\* element_ok that neither skip of lines 209-216 is taken
Turn(valid, has_screenshot, has_html, has_bboxes, element_ok) ==
    [valid |-> valid, has_screenshot |-> has_screenshot,
     has_html |-> has_html, has_bboxes |-> has_bboxes,
     element_ok |-> element_ok]

\* the turns of a replay: browser turns with an intent that is not valid,
\* with or without a page; turns with any of screenshot, html and bounding
\* boxes; a turn with all three whose element is missing
TurnKinds ==
    {Turn(FALSE, TRUE, b, b, TRUE) : b \in BOOLEAN}
    \cup {Turn(TRUE, s, h, b, TRUE) :
             s \in BOOLEAN, h \in BOOLEAN, b \in BOOLEAN}
    \cup {Turn(TRUE, TRUE, TRUE, TRUE, FALSE)}

\* lines 95-112: the path of the first file, or None when it does not exist
InitialPath(exists) == IF exists THEN 0 ELSE NonePath

\* a pass that ends in a continue, or falls out of the body unrecorded
Skipped(ls, lh, lb) ==
    [last_screenshot |-> ls, last_html |-> lh, last_bbox |-> lb,
     recorded |-> FALSE, screenshot_path |-> NonePath,
     html_path |-> NonePath, bbox_path |-> NonePath]

\* the body of the loop with the test of lines 134-137 left out: what the
\* turn has is taken from it, what it lacks from the last one
MetaIterationNoMismatchTest(turn, i, ls, lh, lb) ==
    IF ~turn.valid THEN Skipped(ls, lh, lb)
    ELSE IF ~turn.has_screenshot /\ ls = NonePath THEN Skipped(ls, lh, lb)
    ELSE LET screenshot_path == IF turn.has_screenshot THEN i ELSE ls
             html_path == IF turn.has_html THEN i ELSE lh
             bbox_path == IF turn.has_bboxes THEN i ELSE lb
         IN  IF html_path = NonePath \/ bbox_path = NonePath
             THEN Skipped(screenshot_path, lh, lb)
             ELSE IF ~turn.element_ok
             THEN Skipped(screenshot_path, html_path, bbox_path)
             ELSE [last_screenshot |-> screenshot_path,
                   last_html |-> html_path, last_bbox |-> bbox_path,
                   recorded |-> TRUE, screenshot_path |-> screenshot_path,
                   html_path |-> html_path, bbox_path |-> bbox_path]

\* lines 117-294: the body of the loop for turn i, given the last paths
MetaIteration(turn, i, ls, lh, lb) ==
    IF ~turn.valid THEN Skipped(ls, lh, lb)
    ELSE IF ~turn.has_screenshot /\ ls = NonePath THEN Skipped(ls, lh, lb)
    ELSE LET screenshot_path == IF turn.has_screenshot THEN i ELSE ls
             last_screenshot_1 == screenshot_path
             only_missing_html == ~turn.has_html /\ turn.has_bboxes
             only_missing_bbox == turn.has_html /\ ~turn.has_bboxes
             missing_both == ~turn.has_html /\ ~turn.has_bboxes
         IN  IF only_missing_html \/ only_missing_bbox
             THEN Skipped(last_screenshot_1, lh, lb)
             ELSE IF missing_both /\ (lh = NonePath \/ lb = NonePath)
             THEN Skipped(last_screenshot_1, lh, lb)
             ELSE LET html_path == IF missing_both THEN lh ELSE i
                      bbox_path == IF missing_both THEN lb ELSE i
                  IN  IF ~turn.element_ok
                      THEN Skipped(last_screenshot_1, html_path, bbox_path)
                      ELSE [last_screenshot |-> last_screenshot_1,
                            last_html |-> html_path,
                            last_bbox |-> bbox_path,
                            recorded |-> TRUE,
                            screenshot_path |-> screenshot_path,
                            html_path |-> html_path,
                            bbox_path |-> bbox_path]

\* lines 91-114: one demonstration, before its first turn
InitMeta ==
    /\ pc = "meta_loop"
    /\ meta_files \in [screenshot : BOOLEAN, bbox : BOOLEAN, html : BOOLEAN]
    /\ meta_turns \in [1..NumTurns -> TurnKinds]
    /\ meta_pos = 1
    /\ last_screenshot = InitialPath(meta_files.screenshot)
    /\ last_bbox = InitialPath(meta_files.bbox)
    /\ last_html = InitialPath(meta_files.html)
    /\ meta_results = {}
    /\ IdleRest
    /\ IdleSnap
    /\ IdleZip

\* lines 116-294: one turn of the replay
MetaTurn ==
    /\ pc = "meta_loop"
    /\ meta_pos <= NumTurns
    /\ LET r == MetaIteration(meta_turns[meta_pos], meta_pos,
                              last_screenshot, last_html, last_bbox)
       IN  /\ last_screenshot' = r.last_screenshot
           /\ last_html' = r.last_html
           /\ last_bbox' = r.last_bbox
           /\ meta_results' =
                  IF r.recorded
                  THEN meta_results \cup
                           {[step |-> meta_pos,
                             screenshot_path |-> r.screenshot_path,
                             html_path |-> r.html_path,
                             bbox_path |-> r.bbox_path]}
                  ELSE meta_results
    /\ meta_pos' = meta_pos + 1
    /\ UNCHANGED <<pc, meta_files, meta_turns, otherVars, snapVars, zipVars>>

\* lines 296-299: the replay is over
MetaEnd ==
    /\ pc = "meta_loop"
    /\ meta_pos = NumTurns + 1
    /\ pc' = "meta_done"
    /\ UNCHANGED <<metaVars, otherVars, snapVars, zipVars>>

NextMeta ==
    \/ MetaTurn
    \/ MetaEnd

SpecMeta == InitMeta /\ [][NextMeta]_vars

(***************************************************************************)
(* Properties of the step post-processing (Spec).                          *)
(***************************************************************************)

Uids == 1..NumElems

\* what the loop of remove_overlapping_bboxes looks at: marked, with a box
Candidate(ep, uid) == ep[uid].set_of_marks # 0 /\ ep[uid].bbox # None

MarkedBoxes(ep) == {uid \in DOMAIN ep : Candidate(ep, uid)}

\* IoU of the boxes of two elements exceeds the threshold
Overlapping(ep, a, b, thr) ==
    LET q == InlineIoU(ep[a].bbox, ep[b].bbox)
    IN  ~q.raised /\ GreaterThan(q, thr)

\* the greedy selection of the specification: uids in the given order, a
\* candidate is accepted unless it overlaps an ACCEPTED one
RECURSIVE ReferenceAccepted(_, _, _, _)
ReferenceAccepted(ep, order, thr, accepted) ==
    IF order = <<>> THEN accepted
    ELSE LET uid == Head(order)
             take == /\ Candidate(ep, uid)
                     /\ \A a \in accepted : ~Overlapping(ep, uid, a, thr)
         IN  ReferenceAccepted(ep, Tail(order), thr,
                               IF take THEN accepted \cup {uid} ELSE accepted)

\* C1: when remove_overlapping_bboxes returns, the marked elements with a box
\* are those of the reference greedy selection, which compares a candidate
\* with the accepted boxes only.
C1_MarksEqualReference ==
    pc = "done" =>
        MarkedBoxes(extra_props)
            = ReferenceAccepted(entry_props, uids_sorted, iou_threshold, {})

Area(ep, uid) == ep[uid].bbox[3] * ep[uid].bbox[4]

\* C2: of two marked boxes with IoU above the threshold and different areas,
\* with no other marked box overlapping either, the smaller stays marked and
\* the larger is cleared when remove_overlapping_bboxes returns.
C2_SmallerKeptLargerDropped ==
    pc = "done" =>
        \A i, j \in Uids :
            ( /\ i # j
              /\ Candidate(entry_props, i)
              /\ Candidate(entry_props, j)
              /\ Area(entry_props, i) < Area(entry_props, j)
              /\ Overlapping(entry_props, i, j, iou_threshold)
              /\ \A k \in MarkedBoxes(entry_props) \ {i, j} :
                    /\ ~Overlapping(entry_props, k, i, iou_threshold)
                    /\ ~Overlapping(entry_props, k, j, iou_threshold) )
            => /\ extra_props[i].set_of_marks = entry_props[i].set_of_marks
               /\ extra_props[j].set_of_marks = 0

\* the example of the specification: A 100x100, B 95x95, threshold 0.9
C2_Witness ==
    /\ pc = "done"
    /\ iou_threshold = <<9, 10>>
    /\ \E i, j \in Uids :
        /\ entry_props[i].bbox = BoxB /\ entry_props[i].set_of_marks = 1
        /\ entry_props[j].bbox = BoxA /\ entry_props[j].set_of_marks = 1
        /\ MarkedBoxes(entry_props) = {i, j}
        /\ extra_props[i].set_of_marks = 1
        /\ extra_props[j].set_of_marks = 0

OutOfBand(ep, uid) ==
    /\ ep[uid].bbox # None
    /\ \/ Area(ep, uid) < band[1]
       \/ Area(ep, uid) > band[2]

\* C3: once preprocess_extra_props(min_area, max_area) ran, and so after
\* remove_overlapping_bboxes too, no element whose box area lies below
\* min_area or above max_area has set_of_marks = 1.
C3_OutOfBandNeverMarked ==
    band # None =>
        \A uid \in Uids : OutOfBand(extra_props, uid)
                            => extra_props[uid].set_of_marks # 1

\* a marked 2x2 box among marked boxes that overlap it, min_area = 50
C3_Witness ==
    /\ pc = "done"
    /\ band = <<50, 500000>>
    /\ \E i, j, k \in Uids :
        /\ input[i].bbox = SmallBox /\ input[i].set_of_marks = 1
        /\ input[j].bbox = SmallBox /\ input[j].set_of_marks = 1
        /\ i # j
        /\ input[k].bbox = HugeBox /\ input[k].set_of_marks = 1
        /\ extra_props[i].set_of_marks = 0
        /\ extra_props[k].set_of_marks = 0

\* C4: in the mark selection of one step (preprocess_extra_props, then
\* remove_overlapping_bboxes) an element without a box is not a mark, and
\* its uid never contributes an entry to other_bboxes.
C4_NoBoxNeverMark ==
    /\ \A uid \in Uids :
          extra_props[uid].bbox = None => uid \notin Range(other_uids)
    /\ None \notin Range(other_bboxes)
    /\ band # None =>
          \A uid \in Uids :
              extra_props[uid].bbox = None => extra_props[uid].set_of_marks = 0

C4_Witness ==
    /\ pc = "done"
    /\ band # None
    /\ other_uids # <<>>
    /\ \E uid \in Uids :
        /\ input[uid].bbox = None
        /\ input[uid].set_of_marks = 1
        /\ extra_props[uid].set_of_marks = 0

\* position of a uid in the dict order of the table
KeyIndex(uid) == CHOOSE i \in 1..NumElems : Keys[i] = uid

\* C5: the order remove_overlapping_bboxes works in is a permutation of the
\* uids of the table, in non-decreasing area (no box: area 0), uids of equal
\* area in the order of the table.
C5_StableAscendingPermutation ==
    pc \in {"loop", "done", "raised"} =>
        /\ Len(uids_sorted) = NumElems
        /\ Range(uids_sorted) = DOMAIN entry_props
        /\ \A a, b \in 1..Len(uids_sorted) :
              a < b =>
                LET ua == uids_sorted[a]
                    ub == uids_sorted[b]
                IN  /\ UidToArea(entry_props[ua]) <= UidToArea(entry_props[ub])
                    /\ UidToArea(entry_props[ua]) = UidToArea(entry_props[ub])
                          => KeyIndex(ua) < KeyIndex(ub)

\* two marked elements with the same box: the tie decides which keeps its mark
C5_Witness ==
    /\ pc = "done"
    /\ \E i, j \in Uids :
        /\ KeyIndex(i) < KeyIndex(j)
        /\ entry_props[i].bbox = BoxA /\ entry_props[j].bbox = BoxA
        /\ extra_props[i].set_of_marks = 1
        /\ entry_props[j].set_of_marks = 1
        /\ extra_props[j].set_of_marks = 0

(***************************************************************************)
(* Properties of the merge of the box map (SpecMerge).                     *)
(***************************************************************************)

\* the keys the for loop of update_extra_props_with_bboxes has gone through
Merged(uid) == pc \in {"merge", "merged"} /\ KeyIndex(uid) < idx

\* C6: update_extra_props_with_bboxes raises nothing, and once it went through
\* an id of the table that the box map lacks, that id has visibility 0 and
\* set_of_marks False, whatever the two were before.
C6_AbsentIdCleared ==
    pc \in {"merge", "merged", "raised"} =>
        /\ err = "none"
        /\ pc # "raised"
        /\ \A uid \in Uids :
              (Merged(uid) /\ uid \notin DOMAIN bboxes) =>
                  /\ extra_props[uid].visibility.num = 0
                  /\ extra_props[uid].set_of_marks = FALSE

C6_Witness ==
    /\ pc = "merged"
    /\ \E uid \in Uids, other \in Uids :
        /\ uid \notin DOMAIN bboxes
        /\ other \in DOMAIN bboxes
        /\ input[uid].visibility = Frac(1, 1)
        /\ input[uid].set_of_marks = TRUE
        /\ extra_props[uid].visibility = Frac(0, 1)
        /\ extra_props[uid].set_of_marks = FALSE

\* C7: update_extra_props_with_bboxes keeps the ids of the table (none
\* added, not even one that only the box map has, none removed), and for an
\* id without a box it changes no field but visibility and set_of_marks.
C7_MergeFrame ==
    pc \in {"merge", "merged"} =>
        /\ DOMAIN extra_props = DOMAIN input
        /\ \A uid \in Uids :
              /\ DOMAIN extra_props[uid] = DOMAIN input[uid]
              /\ uid \notin DOMAIN bboxes =>
                    /\ extra_props[uid].bbox = input[uid].bbox
                    /\ extra_props[uid].clickable = input[uid].clickable

C7_Witness ==
    /\ pc = "merged"
    /\ (NumElems + 1) \in DOMAIN bboxes
    /\ \E uid \in Uids :
        /\ uid \notin DOMAIN bboxes
        /\ input[uid].bbox # None
        /\ extra_props[uid].bbox = input[uid].bbox
        /\ extra_props[uid].set_of_marks # input[uid].set_of_marks

\* C8: when update_extra_props_with_bboxes returns, an element whose box has
\* IoU > 0.9 with the box of an element that came earlier in the table and
\* is marked has set_of_marks False.
C8_LaterDuplicateUnmarked ==
    pc = "merged" =>
        \A j, k \in Uids \cap DOMAIN bboxes :
            ( /\ KeyIndex(j) < KeyIndex(k)
              /\ extra_props[j].set_of_marks = TRUE
              /\ LET q == compute_iou(bboxes[k], bboxes[j])
                 IN  ~q.raised /\ GreaterThan(q, IouThresholdDefault) )
            => extra_props[k].set_of_marks = FALSE

(***************************************************************************)
(* Properties of the rectangle geometry (SpecIoU).                         *)
(***************************************************************************)

BoxArea(b) == b.width * b.height

\* C9: the IoU computation (compute_iou, and the one inside
\* verify_overlap_with_other_bboxes) does not raise, and its value is 0
\* whenever one of the two boxes has zero or negative area.
C9_DegenerateIoUIsZero ==
    pc # "start" =>
        /\ ~iou.raised
        /\ err = "none"
        /\ (BoxArea(bbox1) <= 0 \/ BoxArea(bbox2) <= 0) => iou.num = 0

\* C10 as claimed: compute_iou(a, a) = 1 for every box of positive area,
\* boxes of negative width and height included.
C10_SelfIoUIsOneForPositiveArea ==
    (pc \in {"computed", "raised"} /\ bbox1 = bbox2 /\ BoxArea(bbox1) > 0) =>
        /\ ~iou.raised
        /\ iou.num = iou.den

\* C10 as the code has it: compute_iou(a, a) = 1 for every box of positive
\* width and positive height.
C10_SelfIoUIsOne ==
    (pc \in {"computed", "raised"} /\ bbox1 = bbox2
        /\ bbox1.width > 0 /\ bbox1.height > 0) =>
        /\ ~iou.raised
        /\ iou.num = iou.den

C10_Witness ==
    /\ pc = "computed"
    /\ bbox1 = bbox2
    /\ bbox1.x < 0
    /\ bbox1.width > 1
    /\ bbox1.height > 0
    /\ iou.num = iou.den
    /\ iou.den = BoxArea(bbox1)

(***************************************************************************)
(* Properties of compute_visibility (SpecVis).                             *)
(***************************************************************************)

\* the pixels [i, i + 1) of the extent [pos, pos + len) that lie on a
\* screen of size dim
PixelsOnScreen(pos, len, dim) ==
    Cardinality({i \in pos..(pos + len - 1) : 0 <= i /\ i < dim})

\* the area of the part of the box on the screen, counted pixel by pixel
ClippedArea(b, sw, sh) ==
    PixelsOnScreen(b.x, b.width, sw) * PixelsOnScreen(b.y, b.height, sh)

\* the box lies entirely left of, above, right of or below the screen
OffScreen(b, sw, sh) ==
    \/ b.x + b.width <= 0
    \/ b.y + b.height <= 0
    \/ b.x >= sw
    \/ b.y >= sh

\* the box lies within [0, sw] x [0, sh]
WithinScreen(b, sw, sh) ==
    /\ b.x >= 0
    /\ b.y >= 0
    /\ b.x + b.width <= sw
    /\ b.y + b.height <= sh

\* the box straddles a screen edge: part of it is on the screen, part is not
Straddles(b, sw, sh) ==
    /\ ClippedArea(b, sw, sh) > 0
    /\ ~WithinScreen(b, sw, sh)

\* C11: for a box of positive width and height compute_visibility gives 0
\* when the box is entirely left of, right of, above or below the screen,
\* 1 when it is within the screen, and clipped area / total area, strictly
\* between 0 and 1, when it straddles a screen edge.
C11_VisibilityByPosition ==
    (pc = "visible" /\ input.width > 0 /\ input.height > 0) =>
        LET sw == screen[1]
            sh == screen[2]
            v == visibility
        IN  /\ v.den > 0
            /\ OffScreen(input, sw, sh) => v.num = 0
            /\ WithinScreen(input, sw, sh) => v.num = v.den
            /\ Straddles(input, sw, sh) =>
                   /\ 0 < v.num
                   /\ v.num < v.den
                   /\ v.num * (input.width * input.height)
                          = ClippedArea(input, sw, sh) * v.den

\* {x:-5, y:0, width:10, height:10} on a 100 x 100 screen gives 1/2
C11_Witness ==
    /\ pc = "visible"
    /\ input = EdgeBox
    /\ screen = <<100, 100>>
    /\ 2 * visibility.num = visibility.den

\* C12: compute_visibility returns 0 for every box with width * height <= 0,
\* wherever the box is, a zero-area box inside the screen included.
C12_DegenerateVisibilityIsZero ==
    (pc = "visible" /\ input.width * input.height <= 0) =>
        visibility.num = 0

\* 0 <= v <= 1 for a float v = num / den
InUnitInterval(v) ==
    /\ v.den > 0
    /\ 0 <= v.num
    /\ v.num <= v.den

\* C13: for every signed box and every screen of non-negative size,
\* compute_visibility divides by nothing that is 0 and returns a value in
\* [0, 1]; so does every visibility update_extra_props_with_bboxes stores.
C13_VisibilityInUnitInterval ==
    /\ pc = "visible" => InUnitInterval(visibility)
    /\ pc \in {"merge", "merged", "raised"} =>
           \A uid \in DOMAIN extra_props :
               InUnitInterval(extra_props[uid].visibility)

\* a box partly off the screen was merged and stored with a fraction
C13_Witness ==
    /\ pc = "merged"
    /\ \E uid \in DOMAIN extra_props :
           /\ uid \in DOMAIN bboxes
           /\ bboxes[uid] = EdgeBox
           /\ 2 * extra_props[uid].visibility.num
                  = extra_props[uid].visibility.den

(***************************************************************************)
(* More properties of the step post-processing (Spec).                     *)
(***************************************************************************)

\* the ids whose set_of_marks is not 0
Marks(ep) == {uid \in DOMAIN ep : ep[uid].set_of_marks # 0}

\* C14: remove_overlapping_bboxes, at every pass of its loop and when it
\* returns or raises, has kept the ids of the table and every field but
\* set_of_marks; a set_of_marks that differs from the one on entry was not 0
\* and is 0, so the marks are a subset of the marks on entry.
C14_OnlyClearsMarks ==
    pc \in {"loop", "done", "raised"} =>
        /\ DOMAIN extra_props = DOMAIN entry_props
        /\ \A uid \in DOMAIN entry_props :
               /\ [extra_props[uid] EXCEPT
                      !.set_of_marks = entry_props[uid].set_of_marks]
                      = entry_props[uid]
               /\ extra_props[uid].set_of_marks
                      # entry_props[uid].set_of_marks
                   => /\ entry_props[uid].set_of_marks # 0
                      /\ extra_props[uid].set_of_marks = 0
        /\ Marks(extra_props) \subseteq Marks(entry_props)

\* a mark was cleared and a mark was kept
C14_Witness ==
    /\ pc = "done"
    /\ Marks(extra_props) # {}
    /\ Marks(extra_props) # Marks(entry_props)

\* every marked element with a box has a box of positive area
MarkedBoxesPositive(ep) ==
    \A uid \in MarkedBoxes(ep) : Area(ep, uid) > 0

\* C17: when remove_overlapping_bboxes returns on a table whose marked boxes
\* all have positive area, no two distinct elements that are still marked and
\* have a box have an IoU above the threshold.
C17_NoMarkedPairOverlaps ==
    (pc = "done" /\ MarkedBoxesPositive(entry_props)) =>
        \A a, b \in MarkedBoxes(extra_props) :
            a # b =>
                LET q == InlineIoU(extra_props[a].bbox, extra_props[b].bbox)
                IN  /\ ~q.raised
                    /\ ~GreaterThan(q, iou_threshold)

\* three marked boxes of positive area of which two are left, the middle
\* one cleared for its overlap with the first
C17_Witness ==
    /\ pc = "done"
    /\ MarkedBoxesPositive(entry_props)
    /\ Cardinality(MarkedBoxes(entry_props)) = NumElems
    /\ Cardinality(MarkedBoxes(extra_props)) = 2
    /\ \E a, b \in MarkedBoxes(entry_props) :
           /\ a # b
           /\ Overlapping(entry_props, a, b, iou_threshold)

\* C18: a second application, of remove_overlapping_bboxes alone or after
\* preprocess_extra_props with the same arguments, to the table the first
\* one returned does not raise and leaves every set_of_marks as it was.
C18_SecondApplicationChangesNothing ==
    run = 2 =>
        /\ pc # "raised"
        /\ \A uid \in DOMAIN first_output :
               extra_props[uid].set_of_marks = first_output[uid].set_of_marks

\* the first application cleared a mark, the second one went through the
\* preprocessing and the loop again
C18_Witness ==
    /\ run = 2
    /\ pc = "done"
    /\ band # None
    /\ Marks(first_output) # Marks(input)
    /\ Cardinality(Marks(first_output)) >= 2
    /\ extra_props = first_output

(***************************************************************************)
(* Properties of preprocess_extra_props on partial entries (SpecPre).      *)
(***************************************************************************)

\* the entry has a bbox of 4 and lacks set_of_marks or clickable
LacksFlag(props) ==
    /\ props.bbox # None
    /\ Len(props.bbox) = 4
    /\ \/ "set_of_marks" \notin DOMAIN props
       \/ "clickable" \notin DOMAIN props

\* C15: preprocess_extra_props does not fail on a table with an entry that
\* has a valid bbox and no set_of_marks or no clickable, and returns that
\* entry with set_of_marks = 1 and clickable = 1.
C15_MissingFlagsSetToOne ==
    pc \in {"pre_done", "pre_raised"} =>
        \A uid \in DOMAIN input :
            LacksFlag(input[uid]) =>
                /\ pc = "pre_done"
                /\ "set_of_marks" \in DOMAIN extra_props[uid]
                /\ "clickable" \in DOMAIN extra_props[uid]
                /\ extra_props[uid].set_of_marks = 1
                /\ extra_props[uid].clickable = 1

(***************************************************************************)
(* Properties of infer_set_of_marks (SpecInfer).                           *)
(***************************************************************************)

\* C16: infer_set_of_marks returns False, and leaves existing_soms as it
\* was, whenever the box of key has an area below area_px_threshold,
\* whatever existing_soms holds, the empty dict included.
C16_SmallBoxNeverMarked ==
    (pc \in {"inferred", "infer_raised"}
        /\ bboxes[infer_key].width * bboxes[infer_key].height
               < AreaPxThreshold) =>
        /\ ~inferred.raised
        /\ inferred.ret = FALSE
        /\ existing_soms = soms_before

(***************************************************************************)
(* Properties of the snapshot loop (SpecSnap).                             *)
(***************************************************************************)

\* C19: a pass of the loop whose extraction raised has written the marker
\* of the page and none of its three outputs, and the loop is at the next
\* page; the page then has no output at all unless a run was interrupted
\* earlier. A pass that found the marker, in this run or a later one,
\* launched no browser and wrote nothing. No pass writes both the marker
\* and an output.
C19_FailedPageMarkedAndSkipped ==
    snap_iter # NoIter =>
        /\ snap_iter.raised =>
               /\ "failed" \in snap_files[snap_iter.page]
               /\ snap_iter.wrote = {"failed"}
               /\ ~snap_killed => snap_files[snap_iter.page] = {"failed"}
               /\ pc \in {"snap_top", "snap_end"}
               /\ snap_page = snap_iter.page + 1
        /\ snap_iter.marked =>
               /\ ~snap_iter.launched
               /\ snap_iter.wrote = {}
        /\ ~("failed" \in snap_iter.wrote
               /\ snap_iter.wrote \cap Outputs # {})

\* in the second run the first page, whose extraction raised in the first
\* run, is met again and skipped
C19_Witness ==
    /\ snap_run = 2
    /\ ~snap_killed
    /\ snap_iter.page = 1
    /\ snap_iter.marked
    /\ ~snap_iter.launched
    /\ snap_files[1] = {"failed"}
    /\ snap_page = 2

(***************************************************************************)
(* Properties of create_weblinx_zips.py (SpecZip).                         *)
(***************************************************************************)

\* C20: every folder recorded in the done file has a completely written
\* archive, and no folder whose archive was completely written is zipped
\* again, in the same run or in a later run, wherever a run was interrupted.
C20_RecordedAfterZipAndNeverRezipped ==
    /\ \A f \in done_file.keys : zip_files[f] = "complete"
    /\ \A f \in done : zip_files[f] = "complete"
    /\ rezipped = {}

(***************************************************************************)
(* Properties of create_metadata_json.py (SpecMeta).                       *)
(***************************************************************************)

\* turn j has both an html page and bounding boxes
HasBoth(j) == meta_turns[j].has_html /\ meta_turns[j].has_bboxes

\* turn j has neither
HasNeither(j) == ~meta_turns[j].has_html /\ ~meta_turns[j].has_bboxes

\* a screenshot is at hand when turn j begins: screenshot-0-0.png, or that
\* of an earlier turn with a valid intent
ScreenshotBefore(j) ==
    \/ meta_files.screenshot
    \/ \E k \in 1..(j - 1) :
           meta_turns[k].valid /\ meta_turns[k].has_screenshot

\* turn j gets as far as the choice of html and bounding boxes: its intent
\* is valid and it has a screenshot of its own or an earlier one
ReachesSelection(j) ==
    /\ meta_turns[j].valid
    /\ meta_turns[j].has_screenshot \/ ScreenshotBefore(j)

SetMax(S) == CHOOSE x \in S : \A y \in S : y <= x

\* page-0-0.html and bboxes-0.json, when both exist
InitialPair ==
    IF meta_files.html /\ meta_files.bbox THEN 0 ELSE NonePath

\* the most recent turn before i among those of S, else the initial pair
MostRecent(S, i) ==
    LET earlier == {j \in S : j < i}
    IN  IF earlier # {} THEN SetMax(earlier) ELSE InitialPair

\* the turns that had both
TurnsWithBoth == {j \in 1..NumTurns : HasBoth(j)}

\* the turns that had both and got as far as the choice
TurnsWithBothSelected == {j \in TurnsWithBoth : ReachesSelection(j)}

\* every recorded step has its two paths from one turn, its own or the one
\* given by carried; a turn with exactly one of the two is not recorded; the
\* pair kept for later turns is the one given by carried
PairsFromOneTurn(carried(_)) ==
    /\ \A d \in meta_results :
           /\ d.html_path = d.bbox_path
           /\ d.html_path # NonePath
           /\ IF HasBoth(d.step)
              THEN d.html_path = d.step
              ELSE /\ HasNeither(d.step)
                   /\ d.html_path = carried(d.step)
    /\ LET c == carried(meta_pos)
       IN  IF c # NonePath
           THEN last_html = c /\ last_bbox = c
           ELSE /\ last_html = InitialPath(meta_files.html)
                /\ last_bbox = InitialPath(meta_files.bbox)

CarriedFromAnyTurn(i) == MostRecent(TurnsWithBoth, i)

CarriedFromSelectedTurn(i) == MostRecent(TurnsWithBothSelected, i)

\* C21 as claimed: html_path and bbox_path of every recorded step are both
\* of the current turn or both of the most recent earlier turn that had
\* both (else page-0-0 / bboxes-0 when both exist); a turn with exactly one
\* of the two is never recorded and never changes the carried pair.
C21_PairFromMostRecentTurnWithBoth ==
    PairsFromOneTurn(CarriedFromAnyTurn)

\* C21 as the code has it: the carried pair is that of the most recent
\* earlier turn that had both and was not skipped before the choice (for an
\* intent that is not valid, or for want of any screenshot).
C21_PairFromMostRecentSelectedTurn ==
    PairsFromOneTurn(CarriedFromSelectedTurn)

\* a step was recorded with the pair of an earlier turn although a turn in
\* between, skipped for its intent or for want of a screenshot, had both
C21_Witness ==
    /\ pc = "meta_done"
    /\ \E d \in meta_results :
           /\ HasNeither(d.step)
           /\ d.html_path >= 1
           /\ d.html_path = d.bbox_path
           /\ d.html_path = CarriedFromSelectedTurn(d.step)
           /\ d.html_path < CarriedFromAnyTurn(d.step)

====
